---- MODULE Spec2Model ----
(***************************************************************************)
(* The index tracker of telliot (pkg/tracker/index/index.go) and the part  *)
(* of mineCmd.Run (cmd/telliot/cmds.go) that owns the time-series store.   *)
(*                                                                         *)
(* One api-count loop per symbol and one value loop per (symbol, source)   *)
(* run concurrently; they share the cancellation context, the store, the   *)
(* prometheus vectors and the wall clock.  Every statement of a loop that  *)
(* reads or writes shared state is a step of its own.                      *)
(***************************************************************************)
EXTENDS Integers, Sequences, FiniteSets, TLC

(* ------------------------------ bounds -------------------------------- *)

\* Loop iterations the workers may start in total.
MaxIter == 2
\* Last instant the wall clock is advanced to.
MaxTime == 2

(* ----------------------------- constants ------------------------------ *)

\* Clock units in one millisecond: time.Time is finer than the int64
\* milliseconds of timestamp.FromTime; the clock counts half milliseconds.
UnitsPerMs == 2
\* time.Unix(0, 0): the instant the clock counts from.
Epoch == 0
\* The wall clock when the process starts: after the epoch.
StartTime == Epoch + 1
\* time.Time{}: the zero time, the start of year 1, which is none of the
\* instants the clock and the timestamps of the model count.
ZeroTime == Epoch - 1

PriceSuffix == "_price"
VolumeSuffix == "_volume"
ApiCountSuffix == "_api_count"

httpSource == "http"
ethereumSource == "ethereum"
manualSource == "manualData"

jsonPathParser == "jsonPath"
uniswapParser == "Uniswap"
balancerParser == "Balancer"

\* Config of the run: cfg.Interval and cfg.ManualDataFile.
CfgInterval == 3
ManualDataFile == <<"manual.json">>

\* time.Millisecond and time.Second in clock units.
Millisecond == UnitsPerMs
Second == 1000 * Millisecond

\* A symbol is the sequence of its pieces, so that sanitising is computed.
ETH == <<"ETH", "/", "USD">>
BTC == <<"BTC", "/", "USD">>
\* The symbols of the index files the tracker is run with.
Symbols == {ETH, BTC}

\* time.Hour in clock units.
Hour == 3600 * Second

\* mineCmd.Run: tsdbOptions.RetentionDuration = int64(2 * 24 * time.Hour),
\* the count of the duration in its own unit, the unit of the clock.  The
\* store reads it in the unit of its timestamps.
RetentionDuration == 2 * 24 * Hour

(* --------------------------- pure functions --------------------------- *)

\* util.SanitizeMetricName: every piece that is not of [a-zA-Z0-9_:] becomes "_".
InvalidPieces == {"/", "-", " ", "."}
SanitizeMetricName(name) ==
    [i \in 1..Len(name) |-> IF name[i] \in InvalidPieces THEN "_" ELSE name[i]]

\* timestamp.FromTime: a time.Time as int64 milliseconds.
FromTime(t) == t \div UnitsPerMs

\* ts.IsZero()
IsZero(ts) == ts = ZeroTime

\* NewParser: a JsonPathParser for "jsonPath", nil for every other parser.
NewParser(api) ==
    IF api.parser = jsonPathParser THEN "JsonPathParser" ELSE "nil"

\* The environment of the process: HOST is set, every other variable is not.
Environ == ("HOST" :> "b.example")
\* os.Getenv: the value of the variable, "" when it is not set.
Getenv(key) == IF key \in DOMAIN Environ THEN Environ[key] ELSE ""

\* A URL is the sequence of its pieces: literal text, and references to
\* variables of the environment, written $KEY or ${KEY}.
References == ("$HOST" :> "HOST") @@ ("${HOST}" :> "HOST") @@ ("${PORT}" :> "PORT")
\* os.Expand(api.URL, os.Getenv): every reference is replaced by the value of
\* its variable, by nothing when the variable is not set.
Expand(url) ==
    SelectSeq([i \in 1..Len(url) |->
                  IF url[i] \in DOMAIN References THEN Getenv(References[url[i]]) ELSE url[i]],
              LAMBDA piece : piece # "")

\* The body of createDataSources' loop for one descriptor: the URL is
\* expanded, then the defaults, then the switch on the type.  client is what
\* the chain client answers.
ApiDefaults(api) ==
    [URL |-> Expand(api.URL),
     type |-> IF api.type = "" THEN httpSource ELSE api.type,
     interval |-> IF api.interval # 0 THEN CfgInterval ELSE api.interval,
     parser |-> IF api.parser = "" THEN jsonPathParser ELSE api.parser]

\* The switch on the type of a descriptor api that has its defaults.
NewSource(api, client) ==
    CASE api.type = httpSource ->
           [err |-> FALSE, kind |-> "JSONapi", source |-> api.URL,
            interval |-> api.interval, parser |-> NewParser(api)]
      [] api.type = manualSource ->
           [err |-> FALSE, kind |-> "JSONfile", source |-> ManualDataFile,
            interval |-> 0, parser |-> NewParser(api)]
      [] api.type = ethereumSource ->
           IF client.idErr \/ ~client.hasAddr
           THEN [err |-> TRUE, kind |-> "", source |-> << >>, interval |-> 0, parser |-> "nil"]
           ELSE IF api.parser = uniswapParser
           THEN [err |-> FALSE, kind |-> "Uniswap", source |-> api.URL,
                 interval |-> api.interval, parser |-> "nil"]
           ELSE IF api.parser = balancerParser
           THEN [err |-> FALSE, kind |-> "Balancer", source |-> api.URL,
                 interval |-> api.interval, parser |-> "nil"]
           \* errors.Wrapf(nil, ...) is nil: the function returns (nil, nil).
           ELSE [err |-> FALSE, kind |-> "abort", source |-> << >>, interval |-> 0, parser |-> "nil"]
      [] OTHER ->
           [err |-> TRUE, kind |-> "", source |-> << >>, interval |-> 0, parser |-> "nil"]

\* The inner loop of createDataSources over the descriptors of one symbol:
\* the first descriptor that makes the function return decides ("abort": the
\* return of a nil mapping with a nil error).
LoadSymbol(apis, client) ==
    LET made == [i \in 1..Len(apis) |-> NewSource(ApiDefaults(apis[i]), client)]
        stops == {i \in 1..Len(apis) : made[i].err \/ made[i].kind = "abort"}
        first == CHOOSE i \in stops : \A j \in stops : i <= j
    IN  IF stops = {}
        THEN [returns |-> FALSE, err |-> FALSE, sources |-> made]
        ELSE [returns |-> TRUE, err |-> made[first].err, sources |-> << >>]

\* createDataSources: the results it can give, each the mapping symbol ->
\* data sources or an error.  A return inside the loops discards what was
\* built; the symbols are visited in the order of a Go map, which is any, so
\* each symbol with a returning descriptor can be the one that is reached.
\* A symbol gets its entry of the mapping with its first data source, so a
\* symbol with an empty list has none.  The file that cannot be read and the
\* file that is no JSON of the expected shape are errors.
createDataSources(file, client) ==
    LET cat == file.indexes
        loaded == [s \in DOMAIN cat |-> LoadSymbol(cat[s], client)]
        returning == {s \in DOMAIN cat : loaded[s].returns}
        listed == {s \in DOMAIN cat : cat[s] # << >>}
    IN  IF ~file.read \/ ~file.json
        THEN { [err |-> TRUE, sources |-> << >>] }
        ELSE IF returning = {}
        THEN { [err |-> FALSE, sources |-> [s \in listed |-> loaded[s].sources]] }
        ELSE { [err |-> loaded[s].err, sources |-> << >>] : s \in returning }

\* The metric families of the index tracker, by their full names.
MetricFamilies ==
    {"telliot_indexTracker_errors_total", "telliot_indexTracker_price", "telliot_indexTracker_volume"}

\* promauto.New*Vec for the families: they are registered with the default
\* registry of the process, and the registration of a name the registry
\* holds already panics.
Register(registry, families) ==
    [panic |-> registry \cap families # {}, registry |-> registry \cup families]

\* index.New in a process with the given default registry: the error of
\* createDataSources is returned before anything is built; otherwise the
\* tracker holds the mapping (nil after an "abort") and its three metric
\* vectors are registered, or their registration panics.
New(registry, file, client) ==
    { IF r.err
      THEN [err |-> TRUE, panic |-> FALSE, sources |-> r.sources,
            registered |-> FALSE, registry |-> registry]
      ELSE LET reg == Register(registry, MetricFamilies)
           IN  [err |-> FALSE, panic |-> reg.panic,
                sources |-> IF reg.panic THEN << >> ELSE r.sources,
                registered |-> ~reg.panic,
                registry |-> IF reg.panic THEN registry ELSE reg.registry] :
        r \in createDataSources(file, client) }

\* Variant: a zero threshold is handed over as it is.
ThresholdAsConfigured(configured, interval) == configured

\* mineCmd.Run: a zero Aggregator.ConfidIntvThreshold becomes the interval of
\* the index tracker plus one second.
ConfidIntvThreshold(configured, interval) ==
    IF configured = 0 THEN interval + Second ELSE configured

(* ------------------------------ inputs -------------------------------- *)

Http(u, iv) == [URL |-> u, type |-> httpSource, parser |-> jsonPathParser, interval |-> iv]
Manual == [URL |-> << >>, type |-> manualSource, parser |-> "", interval |-> 0]
Descriptor(u, t, p) == [URL |-> u, type |-> t, parser |-> p, interval |-> 0]

\* The catalogs the tracker is started with: one symbol with a single http
\* source, and one symbol with two manualData sources, which share the
\* source id (the path of the manual-data file).
Catalogs ==
    { (BTC :> <<Http(<<"http://b/">>, 0)>>),
      (ETH :> <<Manual, Manual>>) }

\* Intervals written in the index file: above and below cfg.Interval.
SlowInterval == CfgInterval + 2
FastInterval == CfgInterval - 1

\* Catalogs with a source of a longer interval, whose URL names the host by a
\* variable that is set, beside a symbol with an empty list; with a source
\* whose URL refers to a variable that is not set, of a shorter
\* interval whose parser does not fit its type (the type is omitted and
\* defaults to http), and catalogs with a descriptor that cannot be loaded.
SlowCatalog == (BTC :> <<Http(<<"http://", "$HOST", "/">>, SlowInterval)>>) @@ (ETH :> << >>)
NilParserCatalog ==
    (BTC :> <<[Descriptor(<<"http://x/", "${PORT}">>, "", uniswapParser) EXCEPT !.interval = FastInterval]>>)
EthBadParserCatalog == (ETH :> <<Manual, Descriptor(<<"0xpool">>, ethereumSource, jsonPathParser)>>)
BadTypeCatalog == (BTC :> <<Http(<<"http://b/">>, 0), Descriptor(<<"ftp://b/">>, "ftp", "")>>)
EthCatalog == (ETH :> <<Manual, Descriptor(<<"0xpool">>, ethereumSource, uniswapParser)>>)

\* An index file with two symbols, each with one source.
TwoSymbolCatalog == (BTC :> <<Http(<<"http://b/">>, 0)>>) @@ (ETH :> <<Manual>>)

\* What the chain client answers: the network id and an address of the
\* pool for it, an error for the network id, or no address for the network.
NetOK == [idErr |-> FALSE, hasAddr |-> TRUE]
NetIdErr == [idErr |-> TRUE, hasAddr |-> TRUE]
NetNoAddr == [idErr |-> FALSE, hasAddr |-> FALSE]

\* Aggregator.ConfidIntvThreshold as configured: unset, or thirty seconds.
ThirtySeconds == 30 * Second

(* ------------------------------ float64 ------------------------------- *)

\* The number of decimal digits of n, and the powers of ten, two and five.
RECURSIVE Width(_)
Width(n) == IF n < 10 THEN 1 ELSE 1 + Width(n \div 10)
RECURSIVE Pow(_, _)
Pow(b, w) == IF w = 0 THEN 1 ELSE b * Pow(b, w - 1)

\* A float64.  A finite one is the float64 nearest to mant * 10^exp, negated
\* when neg is set; mant is no multiple of ten, and zero has exp = 0.
Finite(neg, mant, exp) == [class |-> "finite", neg |-> neg, mant |-> mant, exp |-> exp]
Inf(neg) == [class |-> "inf", neg |-> neg, mant |-> 0, exp |-> 0]
NaN == [class |-> "nan", neg |-> FALSE, mant |-> 0, exp |-> 0]

RECURSIVE Normal(_, _, _)
Normal(neg, mant, exp) ==
    IF mant = 0 THEN Finite(neg, 0, 0)
    ELSE IF mant % 10 = 0 THEN Normal(neg, mant \div 10, exp + 1)
    ELSE Finite(neg, mant, exp)

\* float64(n) of an integer.
Float(n) == IF n < 0 THEN Normal(TRUE, 0 - n, 0) ELSE Normal(FALSE, n, 0)
Zero == Float(0)

\* The decimal order of a finite value that is not zero: its magnitude lies
\* in [10^(Order - 1), 10^Order); and its first w digits, for a w that is no
\* less than the digits of mant.
Order(f) == Width(f.mant) + f.exp
Lead(f, w) == f.mant * Pow(10, w - Width(f.mant))

\* math.MaxFloat64 is 1.7976931348623157e308 and half the smallest float64
\* above zero is 2.4703282292062327e-324: their orders and first digits.
MaxOrder == 309
MaxLead == 179769313
MinOrder == 0 - 323
HalfMinLead == 247032822

\* The float64 of a decimal: +-Inf and a range error beyond MaxFloat64, zero
\* of the sign for what rounds to zero.
Round(neg, mant, exp) ==
    LET f == Normal(neg, mant, exp)
    IN  IF f.mant = 0 THEN [err |-> FALSE, val |-> f]
        ELSE IF Order(f) > MaxOrder \/ (Order(f) = MaxOrder /\ Lead(f, Width(MaxLead)) > MaxLead)
        THEN [err |-> TRUE, val |-> Inf(neg)]
        ELSE IF Order(f) < MinOrder \/ (Order(f) = MinOrder /\ Lead(f, Width(HalfMinLead)) <= HalfMinLead)
        THEN [err |-> FALSE, val |-> Finite(neg, 0, 0)]
        ELSE [err |-> FALSE, val |-> f]

\* The float64 mant * 2^exp of a hexadecimal mantissa of a few digits:
\* beyond 2^1024 it is out of range, below 2^-1111 it rounds to zero.
RoundBinary(neg, mant, exp) ==
    IF mant = 0 THEN [err |-> FALSE, val |-> Finite(neg, 0, 0)]
    ELSE IF exp >= 1024 THEN [err |-> TRUE, val |-> Inf(neg)]
    ELSE IF exp < 0 - 1111 THEN [err |-> FALSE, val |-> Finite(neg, 0, 0)]
    ELSE IF exp >= 0 THEN Round(neg, mant * Pow(2, exp), 0)
    ELSE Round(neg, mant * Pow(5, 0 - exp), exp)

(* ------------------------- strconv.ParseFloat ------------------------- *)

\* A string is the sequence of its characters.
DigitOf ==
    ("0" :> 0) @@ ("1" :> 1) @@ ("2" :> 2) @@ ("3" :> 3) @@ ("4" :> 4) @@
    ("5" :> 5) @@ ("6" :> 6) @@ ("7" :> 7) @@ ("8" :> 8) @@ ("9" :> 9)
HexLetterOf ==
    ("a" :> 10) @@ ("b" :> 11) @@ ("c" :> 12) @@ ("d" :> 13) @@ ("e" :> 14) @@ ("f" :> 15)
\* lower(c): the lower-case letter of an upper-case one.
Lower(c) ==
    LET UpperCase ==
            <<"A", "B", "C", "D", "E", "F", "G", "H", "I", "J", "K", "L", "M",
              "N", "O", "P", "Q", "R", "S", "T", "U", "V", "W", "X", "Y", "Z">>
        LowerCase ==
            <<"a", "b", "c", "d", "e", "f", "g", "h", "i", "j", "k", "l", "m",
              "n", "o", "p", "q", "r", "s", "t", "u", "v", "w", "x", "y", "z">>
    IN  IF \E k \in 1..Len(UpperCase) : UpperCase[k] = c
        THEN LowerCase[CHOOSE k \in 1..Len(UpperCase) : UpperCase[k] = c]
        ELSE c

\* commonPrefixLenIgnoreCase(s, prefix), prefix in lower case.
RECURSIVE CommonPrefixLen(_, _)
CommonPrefixLen(s, prefix) ==
    IF s = << >> \/ prefix = << >> THEN 0
    ELSE IF Lower(s[1]) # prefix[1] THEN 0
    ELSE 1 + CommonPrefixLen(Tail(s), Tail(prefix))

\* special: "inf" and "infinity" with an optional sign and "nan" without,
\* in any case of the letters; n is the length of what was read.
special(s) ==
    LET NotSpecial == [ok |-> FALSE, val |-> NaN, n |-> 0] IN
    IF s = << >> THEN NotSpecial
    ELSE LET signed == s[1] \in {"+", "-"}
             rest == IF signed THEN Tail(s) ELSE s
             common == CommonPrefixLen(rest, <<"i", "n", "f", "i", "n", "i", "t", "y">>)
             n == IF 3 < common /\ common < 8 THEN 3 ELSE common
         IN  IF signed \/ s[1] \in {"i", "I"}
             THEN IF n = 3 \/ n = 8
                  THEN [ok |-> TRUE, val |-> Inf(s[1] = "-"), n |-> n + (IF signed THEN 1 ELSE 0)]
                  ELSE NotSpecial
             ELSE IF s[1] \in {"n", "N"} /\ CommonPrefixLen(s, <<"n", "a", "n">>) = 3
             THEN [ok |-> TRUE, val |-> NaN, n |-> 3]
             ELSE NotSpecial

\* The loop of readFloat over the mantissa from the character at i: the
\* digits without the leading zeros (nd of them), the position dp of the
\* point among them, and where the loop stopped.
RECURSIVE ReadMantissa(_, _, _, _)
ReadMantissa(s, i, base, m) ==
    IF i > Len(s) THEN [m EXCEPT !.i = i]
    ELSE LET c == s[i] IN
         IF c = "_" THEN ReadMantissa(s, i + 1, base, [m EXCEPT !.underscores = TRUE])
         ELSE IF c = "."
         THEN IF m.sawdot THEN [m EXCEPT !.i = i]
              ELSE ReadMantissa(s, i + 1, base, [m EXCEPT !.sawdot = TRUE, !.dp = m.nd])
         ELSE IF c \in DOMAIN DigitOf
         THEN IF c = "0" /\ m.nd = 0
              THEN ReadMantissa(s, i + 1, base, [m EXCEPT !.sawdigits = TRUE, !.dp = @ - 1])
              ELSE ReadMantissa(s, i + 1, base,
                       [m EXCEPT !.sawdigits = TRUE, !.nd = @ + 1,
                                 !.mantissa = @ * base + DigitOf[c]])
         ELSE IF base = 16 /\ Lower(c) \in DOMAIN HexLetterOf
         THEN ReadMantissa(s, i + 1, base,
                  [m EXCEPT !.sawdigits = TRUE, !.nd = @ + 1,
                            !.mantissa = @ * base + HexLetterOf[Lower(c)]])
         ELSE [m EXCEPT !.i = i]

\* The digits of the exponent from the character at i, underscores among
\* them: the number they spell, no longer added to from 10000 on.
RECURSIVE ReadExponent(_, _, _)
ReadExponent(s, i, x) ==
    IF i > Len(s) \/ ~(s[i] \in DOMAIN DigitOf \/ s[i] = "_") THEN [x EXCEPT !.i = i]
    ELSE IF s[i] = "_" THEN ReadExponent(s, i + 1, [x EXCEPT !.underscores = TRUE])
    ELSE ReadExponent(s, i + 1,
             [x EXCEPT !.e = IF @ < 10000 THEN @ * 10 + DigitOf[s[i]] ELSE @])

\* underscoreOK: every underscore stands between two digits, the base prefix
\* counting as a digit.  saw is the kind of the last character.
RECURSIVE UnderscoresFrom(_, _, _, _)
UnderscoresFrom(s, i, hex, saw) ==
    IF i > Len(s) THEN saw # "_"
    ELSE IF s[i] \in DOMAIN DigitOf \/ (hex /\ Lower(s[i]) \in DOMAIN HexLetterOf) THEN UnderscoresFrom(s, i + 1, hex, "0")
    ELSE IF s[i] = "_" THEN saw = "0" /\ UnderscoresFrom(s, i + 1, hex, "_")
    ELSE saw # "_" /\ UnderscoresFrom(s, i + 1, hex, "!")
underscoreOK(str) ==
    LET s == IF str # << >> /\ str[1] \in {"-", "+"} THEN Tail(str) ELSE str
        prefixed == Len(s) >= 2 /\ s[1] = "0" /\ Lower(s[2]) \in {"b", "o", "x"}
    IN  IF prefixed
        THEN UnderscoresFrom(s, 3, Lower(s[2]) = "x", "0")
        ELSE UnderscoresFrom(s, 1, FALSE, "^")

\* readFloat from the optional exponent on, m being what the loop over the
\* mantissa has read: the exponent, the check of the underscores and the
\* result, with the length n of what was read.
readExponent(s, neg, hex, m) ==
    LET NotRead == [ok |-> FALSE, neg |-> FALSE, hex |-> FALSE, mantissa |-> 0, exp |-> 0, n |-> 0]
        scale == IF hex THEN 4 ELSE 1
        dp == scale * (IF m.sawdot THEN m.dp ELSE m.nd)
        ndMant == scale * m.nd
        hasExp == m.i <= Len(s) /\ Lower(s[m.i]) = (IF hex THEN "p" ELSE "e")
        signedExp == m.i + 1 <= Len(s) /\ s[m.i + 1] \in {"+", "-"}
        digitsAt == IF signedExp THEN m.i + 2 ELSE m.i + 1
        x == ReadExponent(s, digitsAt, [e |-> 0, underscores |-> m.underscores, i |-> 0])
        esign == IF signedExp /\ s[m.i + 1] = "-" THEN 0 - 1 ELSE 1
        stop == IF hasExp THEN x.i ELSE m.i
        underscores == IF hasExp THEN x.underscores ELSE m.underscores
    IN  IF ~m.sawdigits THEN NotRead
        ELSE IF hasExp /\ (digitsAt > Len(s) \/ ~s[digitsAt] \in DOMAIN DigitOf) THEN NotRead
        ELSE IF ~hasExp /\ hex THEN NotRead
        ELSE IF underscores /\ ~underscoreOK(SubSeq(s, 1, stop - 1)) THEN NotRead
        ELSE [ok |-> TRUE, neg |-> neg, hex |-> hex, mantissa |-> m.mantissa,
              exp |-> IF m.mantissa = 0 THEN 0
                      ELSE dp - ndMant + (IF hasExp THEN esign * x.e ELSE 0),
              n |-> stop - 1]

\* readFloat: the sign, the mantissa and the exponent of the number that
\* begins the string, decimal or hexadecimal (0x, with a p exponent it must
\* have).  Of the empty string nothing is read.
readFloat(s) ==
    LET first == IF s # << >> /\ s[1] \in {"+", "-"} THEN 2 ELSE 1
        hex == first + 2 <= Len(s) /\ s[first] = "0" /\ Lower(s[first + 1]) = "x"
    IN  readExponent(s, s # << >> /\ s[1] = "-", hex,
            ReadMantissa(s, IF hex THEN first + 2 ELSE first, IF hex THEN 16 ELSE 10,
                         [mantissa |-> 0, nd |-> 0, dp |-> 0, sawdot |-> FALSE,
                          sawdigits |-> FALSE, underscores |-> FALSE, i |-> 0]))

\* atof64 of a string that is not special, rd being what readFloat read of
\* it: the float64 of the mantissa and the exponent, a syntax error when
\* nothing or not the whole string was read, and a range error, with +-Inf,
\* for a number beyond the float64.
atof64(str, rd) ==
    IF ~rd.ok \/ rd.n # Len(str) THEN [err |-> TRUE, val |-> Zero]
    ELSE IF rd.hex THEN RoundBinary(rd.neg, rd.mantissa, rd.exp)
    ELSE Round(rd.neg, rd.mantissa, rd.exp)

\* strconv.ParseFloat(strValue, 64): the float64 the whole string spells and
\* a syntax error for every other string.
ParseFloat(str) ==
    LET sp == special(str)
    IN  IF sp.ok
        THEN IF sp.n = Len(str) THEN [err |-> FALSE, val |-> sp.val]
             ELSE [err |-> TRUE, val |-> Zero]
        ELSE atof64(str, readFloat(str))

(* ------------------------------ time.Unix ----------------------------- *)

\* The seconds before and after the epoch up to which the instants of the
\* model are told apart: an instant further away stands for every instant
\* on its side of the clock.
MaxSec == 2000
DistantPast == Epoch - (MaxSec + 1) * Second
DistantFuture == Epoch + (MaxSec + 1) * Second

\* An int64 is written as the float64 of its value, an integer of a few
\* digits times a power of ten, the least and the greatest int64 by
\* themselves.
MinInt64 == [class |-> "least", neg |-> TRUE, mant |-> 0, exp |-> 0]
MaxInt64 == [class |-> "greatest", neg |-> FALSE, mant |-> 0, exp |-> 0]

\* unixToInternal, the seconds from year 1 to 1970 that time.Unix adds to
\* its argument: 62135596800.  From 2^63 - 62135596800 on, which is
\* 9.223371974719179008e18, the sum wraps around: the order and the first
\* digits of that number.
unixToInternal == Finite(FALSE, 621355968, 2)
Int64Order == 19
WrapLead == 922337197

\* time.Unix(sec, 0) of an int64: the instant sec + unixToInternal seconds
\* after the start of year 1, which is time.Time{} for sec = -62135596800.
\* The sum of the greatest seconds wraps around to an instant before the
\* clock.
Unix(sec) ==
    CASE sec.class = "least" -> DistantPast
      [] sec.class = "greatest" -> DistantPast
      [] sec = [unixToInternal EXCEPT !.neg = TRUE] -> ZeroTime
      [] sec.mant = 0 -> Epoch
      [] ~sec.neg /\ Order(sec) = Int64Order /\ Lead(sec, Width(WrapLead)) > WrapLead ->
           DistantPast
      [] Order(sec) > Width(MaxSec) \/ sec.mant * Pow(10, sec.exp) > MaxSec ->
           IF sec.neg THEN DistantPast ELSE DistantFuture
      [] OTHER ->
           IF sec.neg THEN Epoch - sec.mant * Pow(10, sec.exp) * Second
           ELSE Epoch + sec.mant * Pow(10, sec.exp) * Second
\* A source timestamp later than every instant the clock reaches.
FarFuture == Unix(Float(1))

\* The builds of the program: the conversion of a float64 that is no int64
\* is left to the implementation.
Builds == {"amd64", "arm64"}

\* 2^63 is 9.223372036854775808e18: the first digits of it.
Int64Lead == 922337203

\* int64(val): the conversion truncates towards zero.  A value from 2^63 on
\* and +Inf become the least int64 on amd64 and the greatest on arm64, a
\* value below -2^63 and -Inf the least on both, NaN the least int64 on
\* amd64 and 0 on arm64.
Int64Of(val, build) ==
    CASE val.class = "nan" -> IF build = "amd64" THEN MinInt64 ELSE Float(0)
      [] val.class = "inf" \/ Order(val) > Int64Order
           \/ (Order(val) = Int64Order /\ Lead(val, Width(Int64Lead)) > Int64Lead) ->
           IF val.neg \/ build = "amd64" THEN MinInt64 ELSE MaxInt64
      [] val.mant = 0 \/ Order(val) <= 0 -> Float(0)
      [] val.exp >= 0 -> val
      [] OTHER -> Normal(val.neg, val.mant \div Pow(10, 0 - val.exp), 0)

\* time.Unix(int64(val), 0)
UnixOf(val, build) == Unix(Int64Of(val, build))

(* ------------------------- JsonPathParser.Parse ----------------------- *)

\* What a Get can return: an error, or (price, volume, source timestamp).
GetErr == [err |-> TRUE, price |-> Zero, volume |-> Zero, ts |-> ZeroTime]
GetOk(p, v, t) == [err |-> FALSE, price |-> p, volume |-> v, ts |-> t]

\* The decimal digits of a natural number.
RECURSIVE DigitsOf(_)
DigitsOf(n) ==
    LET DigitChars == <<"0", "1", "2", "3", "4", "5", "6", "7", "8", "9">>
    IN  IF n < 10 THEN <<DigitChars[n + 1]>>
        ELSE Append(DigitsOf(n \div 10), DigitChars[(n % 10) + 1])

\* fmt.Sprintf("%v", a) of a JSON number that is the integer n, a float64:
\* the shortest digits, with an exponent of two digits from 10^6 on.
Num(n) ==
    LET sign == IF n < 0 THEN <<"-">> ELSE << >>
        all == DigitsOf(IF n < 0 THEN 0 - n ELSE n)
        f == Float(n)
        shortest == DigitsOf(f.mant)
        x == Len(all) - 1
    IN  IF x < 6 THEN sign \o all
        ELSE sign \o <<Head(shortest)>>
                  \o (IF Len(shortest) > 1 THEN <<".">> \o Tail(shortest) ELSE << >>)
                  \o <<"e", "+">> \o (IF x < 10 THEN <<"0">> ELSE << >>) \o DigitsOf(x)
\* fmt.Sprintf("%v", a) of the JSON value true, and of the JSON number
\* -62135596800, the seconds of the start of year 1.
True == <<"t", "r", "u", "e">>
YearOne == <<"-", "6", ".", "2", "1", "3", "5", "5", "9", "6", "8", "e", "+", "1", "0">>

\* Variant: the separators are left in the string.
KeepCommas(str) == str

\* strings.Replace(strValue, ",", "", -1)
RemoveCommas(str) == SelectSeq(str, LAMBDA c : c # ",")

\* What jsonpath.Read yields: one value, or a list of items, each as
\* fmt.Sprintf("%v", a) prints it.
Scalar(a) == [kind |-> "scalar", value |-> a]
List(items) == [kind |-> "list", value |-> items]
\* The type switch: a list as it is, anything else as a list of one item.
ResultList(output) == IF output.kind = "list" THEN output.value ELSE <<output.value>>

\* The input of Parse: bytes that are no JSON, a JSON document the path does
\* not match, or a document with what the path yields.
BadJson == [json |-> FALSE, path |-> FALSE, output |-> List(<< >>)]
NoMatch == [json |-> TRUE, path |-> FALSE, output |-> List(<< >>)]
Document(output) == [json |-> TRUE, path |-> TRUE, output |-> output]
\* A document whose path yields a list of JSON numbers.
Numbers(ns) == Document(List([i \in 1..Len(ns) |-> Num(ns[i])]))

\* The loop of Parse over the n items, val[i] being what ParseFloat returns
\* for item i: the first is the price, the second the volume, the third the
\* time.Unix timestamp, the first of them that is no number is the error of
\* Parse, and items after the third are ignored.  What no item sets stays 0
\* and time.Time{}.
ParseItems(val, n, build) ==
    IF \E i \in 1..n : i <= 3 /\ val[i].err THEN GetErr
    ELSE GetOk(IF n >= 1 THEN val[1].val ELSE Zero,
               IF n >= 2 THEN val[2].val ELSE Zero,
               IF n >= 3 THEN UnixOf(val[3].val, build) ELSE ZeroTime)

\* JsonPathParser.Parse: the error of json.Unmarshal or of jsonpath.Read;
\* otherwise the items are parsed in order, each with its ',' removed.
Parse(input, build) ==
    IF ~input.json \/ ~input.path THEN GetErr
    ELSE LET resultList == ResultList(input.output)
         IN  ParseItems([i \in 1..Len(resultList) |-> ParseFloat(RemoveCommas(resultList[i]))],
                        Len(resultList), build)

\* What the http server answers: a value without a timestamp, or with one
\* stamped at the epoch, in the future or at the start of year 1, a value
\* that is no number, bytes that are no JSON, or a document in which the
\* path matches nothing (an empty list).  What the manual-data file holds: a
\* value without a timestamp, one stamped 0, or one stamped five minutes
\* before the process started.
HttpResults ==
    { Numbers(<<10, 5>>), Numbers(<<20, 0, 0>>), Numbers(<<10, 5, 1>>),
      Document(List(<<Num(10), Num(5), YearOne>>)),
      Document(List(<<Num(10), True>>)), BadJson, Document(List(<< >>)) }
FileResults == { Numbers(<<10, 5>>), Numbers(<<10, 0, 0>>), Numbers(<<10, 0, -300>>) }
\* The manual-data file that is rewritten between two reads: it holds
\* (10, 5) or (20, 7).
RewrittenFile == { Numbers(<<10, 5>>), Numbers(<<20, 7>>) }

\* The documents of the runs, each with what self.Parse(vals) returns for
\* it, on one build or another.
Parsed == { <<r, Parse(r, b)>> : r \in HttpResults \cup FileResults \cup RewrittenFile, b \in Builds }
\* A JSONapi or JSONfile built with the nil Parser of NewParser.
NilParser(ds) == ds.kind \in {"JSONapi", "JSONfile"} /\ ds.parser = "nil"

\* What Get of a data source can return.  With a nil Parser only the fetch
\* (or the read of the file) can fail; self.Parse does not return.
GetOutcomes(ds, file) ==
    IF NilParser(ds) THEN { GetErr }
    ELSE { GetErr } \cup { p[2] : p \in { q \in Parsed :
                                  q[1] \in (IF ds.kind = "JSONfile" THEN file ELSE HttpResults) } }
NoResult == GetOk(Zero, Zero, ZeroTime)

(* ------------------------------- runs -------------------------------- *)

\* The index file at cfg.ApiFile: whether ioutil.ReadFile reads it, whether
\* json.Unmarshal accepts its bytes, and the catalog they give.
ApiFile(cat) == [read |-> TRUE, json |-> TRUE, indexes |-> cat]

\* The runs: the index file, the chain client, the configured threshold,
\* the default registry of the process, empty in a process that starts, and
\* whether aggregator.New, which mineCmd.Run calls before index.New, succeeds,
\* and what the manual-data file holds over the run.
Run(cat, client, confid) ==
    [file |-> ApiFile(cat), net |-> client, confid |-> confid, registry |-> {},
     aggregator |-> TRUE, manual |-> FileResults]
\* The runs whose index file is missing, or is no JSON of the expected shape.
NoFileRun ==
    [Run(<< >>, NetOK, 0) EXCEPT !.file = [read |-> FALSE, json |-> FALSE, indexes |-> << >>]]
BadFileRun ==
    [Run(<< >>, NetOK, ThirtySeconds)
        EXCEPT !.file = [read |-> TRUE, json |-> FALSE, indexes |-> << >>]]
\* The run in which aggregator.New returns an error.
NoAggregatorRun == [Run((BTC :> <<Http(<<"http://b/">>, 0)>>), NetOK, 0) EXCEPT !.aggregator = FALSE]
\* The run of a second tracker in the process of a first one, which was
\* built for the same run and stopped.
Again(run) ==
    [run EXCEPT !.registry = (CHOOSE t \in New(run.registry, run.file, run.net) : TRUE).registry]
Inputs ==
    { Run(c, NetOK, IF ETH \in DOMAIN c THEN Millisecond ELSE 0) : c \in Catalogs }
    \cup { Run(SlowCatalog, NetOK, 0),
           Run(NilParserCatalog, NetOK, 0),
           Run(EthBadParserCatalog, NetOK, ThirtySeconds),
           Run(BadTypeCatalog, NetOK, ThirtySeconds),
           Run(EthCatalog, NetIdErr, 0),
           Run(EthCatalog, NetNoAddr, ThirtySeconds),
           NoFileRun, BadFileRun, NoAggregatorRun,
           Again(Run(SlowCatalog, NetOK, 0)),
           Again(Run(BadTypeCatalog, NetOK, ThirtySeconds)) }

(* ------------------------------- state -------------------------------- *)

\* The most data sources a symbol of the catalogs above has.
MaxSources == 2

\* A worker is <<symbol, 0>> (the recordApiCount goroutine of the symbol) or
\* <<symbol, k>>, k >= 1 (the recordValues goroutine of the source at index
\* k-1 of the symbol's list, whose delay is k-1).
Workers == Symbols \X (0..MaxSources)
IsApi(w) == w[2] = 0

VARIABLES
    retention,    \* the retention window tsDB was opened with
    prior,        \* the metric families registered in the process before New
    catalog,      \* the parsed index file
    net,          \* what the chain client answers
    newErr,       \* index.New returned an error
    registered,   \* the metric vectors of the tracker are registered
    cfgConfid,    \* cfg.Aggregator.ConfidIntvThreshold as configured
    confidIntv,   \* the threshold mineCmd.Run hands to the aggregator
    dataSources,  \* IndexTracker.dataSources
    manualFile,   \* what cfg.ManualDataFile can hold when a JSONfile reads it
    cancelled,    \* self.ctx is done
    now,          \* the wall clock, time.Now()
    runPc,        \* mineCmd.Run: "unbuilt", "failed", "newPanic", "new", "aborted",
                  \* and IndexTracker.Run: "waiting" (<-ctx.Done()), "returned"
    dbClosed,     \* mineCmd.Run's deferred tsDB.Close() has run
    pc,           \* where each goroutine stands
    tick,         \* ticker.C of each goroutine holds a tick (a channel of one)
    got,          \* price, volume, ts, err of the goroutine's last Get
    app,          \* the samples in the goroutine's appender, not yet committed
    started,      \* iterations the goroutines have started, in total
    store,        \* tsDB: the committed samples of each series, in commit order
    getErrors,    \* errors_total{source}
    prices,       \* price{source}
    volumes,      \* volume{source}
    \* history of the run, read by the properties only
    failedGets,   \* Get calls that returned an error, per source id
    lateTicks,    \* ticks a goroutine received after the cancellation
    apiTicks,     \* ticks an api-count loop received
    last,         \* how the iteration ended whose tick a goroutine waits for
    \* a call of a parser by itself
    parseInput,   \* the bytes handed to JsonPathParser.Parse
    parseOutput,  \* what the call returned, once it has
    \* CurrentVariablesTracker
    kv,           \* the key-value DB of the miner: the bytes stored under each key
    exec          \* the call of Exec: its position, its locals and what it wrote

vars == <<retention, prior, catalog, net, newErr, registered, cfgConfid, confidIntv, dataSources,
          manualFile, cancelled, now, runPc, dbClosed, pc, tick, got, app,
          started, store, getErrors, prices, volumes, failedGets, lateTicks,
          apiTicks, last, parseInput, parseOutput, kv, exec>>

\* What the loops of the tracker never change.
aside == <<parseInput, parseOutput, kv, exec>>
config == <<retention, prior, catalog, net, newErr, registered, cfgConfid, confidIntv, dataSources,
            manualFile, aside>>
metrics == <<getErrors, prices, volumes>>
history == <<failedGets, lateTicks, apiTicks, last>>

Spawned(w) ==
    /\ w[1] \in DOMAIN dataSources
    /\ w[2] <= Len(dataSources[w[1]])

DataSource(w) == dataSources[w[1]][w[2]]
\* dataSource.Source(): the url of a JSONapi, the file path of a JSONfile.
Source(w) == DataSource(w).source

SourceIds ==
    {<<"http://b/">>, <<"http://", "b.example", "/">>, <<"http://x/">>, ManualDataFile}

\* A GaugeVec: its children by label value; With(...).Set(v) creates or sets one.
EmptyVec == << >>
SetGauge(vec, source, v) ==
    [s \in DOMAIN vec \cup {source} |-> IF s = source THEN v ELSE vec[s]]

\* Variant: the name is not sanitized.
MetricNameRaw(symbol, suffix) == symbol \o <<suffix>>

\* util.SanitizeMetricName(symbol + suffix)
MetricName(symbol, suffix) == SanitizeMetricName(symbol \o <<suffix>>)

\* The labels of a _price or _volume sample, and of an _api_count sample.
ValueLabels(symbol, suffix, source) ==
    ("__name__" :> MetricName(symbol, suffix)) @@ ("source" :> source)
CountLabels(symbol) == ("__name__" :> MetricName(symbol, ApiCountSuffix))

Sample(lbls, t, v) == [labels |-> lbls, t |-> t, v |-> v]

\* The store maps the labels of a series to its samples (t, v).
EmptyStore == << >>
Series(st, lbls) == IF lbls \in DOMAIN st THEN st[lbls] ELSE << >>
Put(st, s) ==
    LET point == [t |-> s.t, v |-> s.v]
    IN  IF s.labels \in DOMAIN st
        THEN [st EXCEPT ![s.labels] = Append(@, point)]
        ELSE st @@ (s.labels :> <<point>>)

\* The store after a Commit of the samples a, in the order of their Append.
RECURSIVE Committed(_, _)
Committed(st, a) ==
    IF a = << >> THEN st ELSE Committed(Put(st, Head(a)), Tail(a))

(* ------------------------------- Init --------------------------------- *)

\* index.New is not called.
NotCalled ==
    [err |-> FALSE, panic |-> FALSE, sources |-> << >>, registered |-> FALSE, registry |-> {}]

\* The state after the constructors of mineCmd.Run for one of the runs: the
\* store is open and empty, the data sources are created from the catalog, no
\* goroutine runs.  mineCmd.Run returns ("unbuilt") before index.New when
\* aggregator.New fails, it returns when index.New fails ("failed") and it
\* unwinds when index.New panics ("newPanic").
Start(runs) ==
    /\ \E in \in runs :
       \E tracker \in (IF in.aggregator THEN New(in.registry, in.file, in.net) ELSE {NotCalled}) :
         /\ prior = in.registry
         /\ catalog = IF in.aggregator THEN in.file.indexes ELSE << >>
         /\ net = in.net
         /\ cfgConfid = in.confid
         /\ confidIntv = ConfidIntvThreshold(in.confid, CfgInterval)
         /\ newErr = tracker.err
         /\ registered = tracker.registered
         /\ dataSources = tracker.sources
         /\ manualFile = in.manual
         /\ runPc = IF ~in.aggregator THEN "unbuilt"
                    ELSE IF tracker.err THEN "failed"
                    ELSE IF tracker.panic THEN "newPanic" ELSE "new"
    /\ retention = RetentionDuration
    /\ cancelled = FALSE
    /\ now = StartTime
    /\ dbClosed = FALSE
    /\ pc = [w \in Workers |-> "none"]
    /\ tick = [w \in Workers |-> FALSE]
    /\ got = [w \in Workers |-> NoResult]
    /\ app = [w \in Workers |-> << >>]
    /\ started = 0
    /\ store = EmptyStore
    /\ getErrors = [s \in SourceIds |-> 0]
    /\ prices = EmptyVec
    /\ volumes = EmptyVec
    /\ failedGets = [s \in SourceIds |-> 0]
    /\ lateTicks = [w \in Workers |-> 0]
    /\ apiTicks = [w \in Workers |-> 0]
    /\ last = [w \in Workers |-> "none"]

\* No parser is called but by the loops.
NoParse ==
    /\ parseInput = NoMatch
    /\ parseOutput = << >>

\* The keys of the DB that Exec reads and writes.
PendingChallengeKey == "PendingChallenge"
CurrentChallengeKey == "CurrentChallenge"
RequestIdKey == "RequestId"
DifficultyKey == "Difficulty"
QueryStringKey == "QueryString"
GranularityKey == "Granularity"
TotalTipKey == "TotalTip"
MiningStatusKey == "MiningStatus"
Keys ==
    {PendingChallengeKey, CurrentChallengeKey, RequestIdKey, DifficultyKey,
     QueryStringKey, GranularityKey, TotalTipKey, MiningStatusKey}

\* No call of Exec is made, the DB holds nothing and no call has begun.
NoCall ==
    [pc |-> "idle", calls |-> 0, cur |-> << >>, pending |-> << >>, asked |-> << >>,
     didMine |-> FALSE, bit |-> << >>, next |-> 0, err |-> FALSE, writes |-> << >>]
NoExec ==
    /\ kv = [k \in Keys |-> << >>]
    /\ exec = NoCall

Init == Start(Inputs) /\ NoParse /\ NoExec

(* ------------------------- the environment ---------------------------- *)

\* IndexTracker.Stop, or the parent context is cancelled.
Stop ==
    /\ ~cancelled
    /\ cancelled' = TRUE
    /\ UNCHANGED <<config, now, runPc, dbClosed, pc, tick, got, app, started, store,
                   metrics, history>>

\* Time passes.
AdvanceClock ==
    /\ now < MaxTime
    /\ now' = now + 1
    /\ UNCHANGED <<config, cancelled, runPc, dbClosed, pc, tick, got, app, started, store,
                   metrics, history>>

\* The ticker of a goroutine fires: the tick is kept if ticker.C is empty and
\* dropped otherwise.  Only <-ticker.C reads the channel, so a tick that
\* fires anywhere between two receives is one that fires during the Get or
\* the Commit of the iteration.
Tick(w) ==
    /\ pc[w] \in (IF IsApi(w) THEN {"commit", "wait"} ELSE {"get", "wait"})
    /\ ~tick[w]
    /\ tick' = [tick EXCEPT ![w] = TRUE]
    /\ UNCHANGED <<config, cancelled, now, runPc, dbClosed, pc, got, app, started, store,
                   metrics, history>>

(* --------------------- IndexTracker.Run, mineCmd.Run ------------------- *)

\* Variant: the last index of the list in place of its length.
ApiCountLastIndex(symbol) == Len(dataSources[symbol]) - 1

\* The interval Run passes to recordValues, the period of the loop's ticker:
\* Interval() of the data source, cfg.Interval when that is zero.
TickerInterval(ds) == IF ds.interval = 0 THEN CfgInterval ELSE ds.interval

\* len(dataSources) as Run passes it to recordApiCount.
ApiCount(symbol) == Len(dataSources[symbol])

\* Run starts the goroutines of every symbol and blocks on ctx.Done().
RunStart ==
    /\ runPc = "new"
    /\ runPc' = "waiting"
    /\ pc' = [w \in Workers |->
                IF ~Spawned(w) THEN "none" ELSE IF IsApi(w) THEN "check" ELSE "sleep"]
    /\ UNCHANGED <<config, cancelled, now, dbClosed, tick, got, app, started, store,
                   metrics, history>>

\* <-self.ctx.Done() returns and Run returns nil, without waiting for the
\* goroutines it started.
RunReturn ==
    /\ runPc = "waiting"
    /\ cancelled
    /\ runPc' = "returned"
    /\ UNCHANGED <<config, cancelled, now, dbClosed, pc, tick, got, app, started, store,
                   metrics, history>>

\* profit.NewProfitTracker returns an error and mineCmd.Run returns it: the
\* run group is never run.
ProfitTrackerFails ==
    /\ runPc = "new"
    /\ runPc' = "aborted"
    /\ UNCHANGED <<config, cancelled, now, dbClosed, pc, tick, got, app, started, store,
                   metrics, history>>

\* mineCmd.Run has returned, or unwinds, after the defer statement, and its
\* deferred tsDB.Close() runs: at one of the three early returns of the
\* constructors, in the panic of index.New, or at the return after g.Run()
\* (the index actor returned).  A panic of another goroutine ends the
\* process without running the deferred functions.
CloseDB ==
    /\ runPc \in {"unbuilt", "failed", "newPanic", "aborted", "returned"}
    /\ ~dbClosed
    /\ dbClosed' = TRUE
    /\ UNCHANGED <<config, cancelled, now, runPc, pc, tick, got, app, started, store,
                   metrics, history>>

(* ------------------- steps common to both loops ----------------------- *)

\* Variant: the head of the loop does not look at the context.
CtxNeverDone == FALSE

\* case <-self.ctx.Done() of the select at the head of a loop.
CtxDone == cancelled

\* The select at the head of the loop: return when the context is done, go on
\* with the iteration otherwise (default).
Check(w) ==
    /\ pc[w] = "check"
    /\ IF CtxDone
       THEN /\ pc' = [pc EXCEPT ![w] = "exit"]
            /\ started' = started
       ELSE /\ started < MaxIter
            /\ pc' = [pc EXCEPT ![w] = IF IsApi(w) THEN "append" ELSE "get"]
            /\ started' = started + 1
    /\ UNCHANGED <<config, cancelled, now, runPc, dbClosed, tick, got, app, store,
                   metrics, history>>

\* appender.Commit(): the samples of the appender become visible together,
\* or the store reports an error and none does.
Commit(w) ==
    /\ pc[w] = "commit"
    /\ \E ok \in BOOLEAN :
         IF ok
         THEN /\ store' = Committed(store, app[w])
              /\ pc' = [pc EXCEPT ![w] = IF IsApi(w) THEN "wait" ELSE "gauges"]
              /\ got' = got
              /\ last' = [last EXCEPT ![w] = "committed"]
         ELSE /\ store' = store
              /\ pc' = [pc EXCEPT ![w] = "wait"]
              /\ got' = [got EXCEPT ![w] = NoResult]
              /\ last' = [last EXCEPT ![w] = "commitFailed"]
    /\ app' = [app EXCEPT ![w] = << >>]
    /\ UNCHANGED <<config, cancelled, now, runPc, dbClosed, tick, started,
                   metrics, failedGets, lateTicks, apiTicks>>

\* <-ticker.C: blocks until the ticker's channel holds a tick.
WaitTick(w) ==
    /\ pc[w] = "wait"
    /\ tick[w]
    /\ tick' = [tick EXCEPT ![w] = FALSE]
    /\ pc' = [pc EXCEPT ![w] = "check"]
    /\ apiTicks' = [apiTicks EXCEPT ![w] = IF IsApi(w) THEN @ + 1 ELSE @]
    /\ lateTicks' = [lateTicks EXCEPT ![w] = IF cancelled THEN @ + 1 ELSE @]
    /\ last' = [last EXCEPT ![w] = "none"]
    /\ UNCHANGED <<config, cancelled, now, runPc, dbClosed, got, app, started, store,
                   metrics, failedGets>>

(* --------------------------- recordValues ----------------------------- *)

\* time.Sleep(time.Duration(delay)) ends and the ticker is created.  The
\* delay is the index of the source, taken as nanoseconds: less than a unit
\* of the clock, so the sleep can end at the instant it began.
Sleep(w) ==
    /\ pc[w] = "sleep"
    /\ pc' = [pc EXCEPT ![w] = "check"]
    /\ UNCHANGED <<config, cancelled, now, runPc, dbClosed, tick, got, app, started, store,
                   metrics, history>>

\* dataSource.Get(self.ctx) returns.
GetReturn(w) ==
    /\ pc[w] = "get"
    /\ \E r \in GetOutcomes(DataSource(w), manualFile) :
         /\ got' = [got EXCEPT ![w] = r]
         /\ failedGets' = [failedGets EXCEPT ![Source(w)] = IF r.err THEN @ + 1 ELSE @]
    /\ pc' = [pc EXCEPT ![w] = "got"]
    /\ UNCHANGED <<config, cancelled, now, runPc, dbClosed, tick, app, started, store,
                   metrics, lateTicks, apiTicks, last>>

\* Get of a source with a nil Parser fetched its document: self.Parse(vals)
\* dereferences nil and the panic, which nothing recovers, ends the process
\* with all its goroutines.
ParsePanic(w) ==
    /\ pc[w] = "get"
    /\ NilParser(DataSource(w))
    /\ pc' = [v \in Workers |-> IF pc[v] = "none" THEN "none" ELSE "panic"]
    /\ runPc' = "panic"
    /\ UNCHANGED <<config, cancelled, now, dbClosed, tick, got, app, started, store,
                   metrics, history>>

\* if err != nil: count the error and wait for the tick.
HandleErr(w) ==
    /\ pc[w] = "got"
    /\ got[w].err
    /\ getErrors' = [getErrors EXCEPT ![Source(w)] = @ + 1]
    /\ pc' = [pc EXCEPT ![w] = "wait"]
    /\ got' = [got EXCEPT ![w] = NoResult]
    /\ last' = [last EXCEPT ![w] = "getFailed"]
    /\ UNCHANGED <<config, cancelled, now, runPc, dbClosed, tick, app, started, store,
                   prices, volumes, failedGets, lateTicks, apiTicks>>

\* Variant: Before in place of After.
ExpiredBefore(ts, t) == ~IsZero(ts) /\ t < ts

\* !ts.IsZero() && time.Now().After(ts)
Expired(ts, t) == ~IsZero(ts) /\ t > ts

\* Variant: an expired value is counted as a Get error.
HandleStaleCounted(w) ==
    /\ pc[w] = "got"
    /\ ~got[w].err
    /\ Expired(got[w].ts, now)
    /\ getErrors' = [getErrors EXCEPT ![Source(w)] = @ + 1]
    /\ pc' = [pc EXCEPT ![w] = "wait"]
    /\ got' = [got EXCEPT ![w] = NoResult]
    /\ last' = [last EXCEPT ![w] = "expired"]
    /\ UNCHANGED <<config, cancelled, now, runPc, dbClosed, tick, app, started, store,
                   prices, volumes, failedGets, lateTicks, apiTicks>>

\* The value is expired: wait for the tick.
HandleStale(w) ==
    /\ pc[w] = "got"
    /\ ~got[w].err
    /\ Expired(got[w].ts, now)
    /\ pc' = [pc EXCEPT ![w] = "wait"]
    /\ got' = [got EXCEPT ![w] = NoResult]
    /\ last' = [last EXCEPT ![w] = "expired"]
    /\ UNCHANGED <<config, cancelled, now, runPc, dbClosed, tick, app, started, store,
                   metrics, failedGets, lateTicks, apiTicks>>

\* The timestamp of an appended sample: timestamp.FromTime(time.Now()).
AppendTime(t) == FromTime(t)

\* The value is not expired at the time.Now() of the test: go on to record it.
HandleFresh(w) ==
    /\ pc[w] = "got"
    /\ ~got[w].err
    /\ ~Expired(got[w].ts, now)
    /\ pc' = [pc EXCEPT ![w] = "appendPrice"]
    /\ UNCHANGED <<config, cancelled, now, runPc, dbClosed, tick, got, app, started, store,
                   metrics, history>>

\* self.tsDB.Appender(self.ctx) and the Append of the price, with a
\* time.Now() of its own.
AppendPrice(w) ==
    /\ pc[w] = "appendPrice"
    /\ app' = [app EXCEPT ![w] =
                 <<Sample(ValueLabels(w[1], PriceSuffix, Source(w)), AppendTime(now), got[w].price)>>]
    /\ pc' = [pc EXCEPT ![w] = "appendVolume"]
    /\ UNCHANGED <<config, cancelled, now, runPc, dbClosed, tick, got, started, store,
                   metrics, history>>

\* Variant: the volume is appended to an appender of its own.
AppendVolumeAlone(w) ==
    /\ pc[w] = "appendVolume"
    /\ app' = [app EXCEPT ![w] =
                 <<Sample(ValueLabels(w[1], VolumeSuffix, Source(w)), AppendTime(now), got[w].volume)>>]
    /\ pc' = [pc EXCEPT ![w] = "commit"]
    /\ UNCHANGED <<config, cancelled, now, runPc, dbClosed, tick, got, started, store,
                   metrics, history>>

\* The Append of the volume, with a time.Now() of its own.
AppendVolume(w) ==
    /\ pc[w] = "appendVolume"
    /\ app' = [app EXCEPT ![w] = Append(@,
                 Sample(ValueLabels(w[1], VolumeSuffix, Source(w)), AppendTime(now), got[w].volume))]
    /\ pc' = [pc EXCEPT ![w] = "commit"]
    /\ UNCHANGED <<config, cancelled, now, runPc, dbClosed, tick, got, started, store,
                   metrics, history>>

\* After a successful Commit: self.prices.With(...).Set(price).
SetPrice(w) ==
    /\ pc[w] = "gauges"
    /\ prices' = SetGauge(prices, Source(w), got[w].price)
    /\ pc' = [pc EXCEPT ![w] = "volumeGauge"]
    /\ UNCHANGED <<config, cancelled, now, runPc, dbClosed, tick, got, app, started, store,
                   getErrors, volumes, history>>

\* self.volumes.With(...).Set(volume), a call of its own; then the wait for
\* the tick.
SetVolume(w) ==
    /\ pc[w] = "volumeGauge"
    /\ volumes' = SetGauge(volumes, Source(w), got[w].volume)
    /\ pc' = [pc EXCEPT ![w] = "wait"]
    /\ got' = [got EXCEPT ![w] = NoResult]
    /\ UNCHANGED <<config, cancelled, now, runPc, dbClosed, tick, app, started, store,
                   getErrors, prices, history>>

(* -------------------------- recordApiCount ---------------------------- *)

\* self.tsDB.Appender(self.ctx) and the Append of float64(count).
ApiAppend(w) ==
    /\ pc[w] = "append"
    /\ app' = [app EXCEPT ![w] =
                 <<Sample(CountLabels(w[1]), AppendTime(now), Float(ApiCount(w[1])))>>]
    /\ pc' = [pc EXCEPT ![w] = "commit"]
    /\ UNCHANGED <<config, cancelled, now, runPc, dbClosed, tick, got, started, store,
                   metrics, history>>

(* ------------------------------ the system ---------------------------- *)

\* A step of the goroutine w itself.
Worker(w) ==
    \/ Check(w)
    \/ Commit(w)
    \/ WaitTick(w)
    \/ Sleep(w)
    \/ GetReturn(w)
    \/ ParsePanic(w)
    \/ HandleErr(w)
    \/ HandleStale(w)
    \/ HandleFresh(w)
    \/ AppendPrice(w)
    \/ AppendVolume(w)
    \/ SetPrice(w)
    \/ SetVolume(w)
    \/ ApiAppend(w)

Next ==
    \/ Stop
    \/ AdvanceClock
    \/ RunStart
    \/ RunReturn
    \/ ProfitTrackerFails
    \/ CloseDB
    \/ \E w \in Workers : Tick(w)
    \/ \E w \in Workers : Worker(w)

Spec == Init /\ [][Next]_vars

\* The runs above and the run of an index file with two symbols.
TwoSymbolInit == Start(Inputs \cup {Run(TwoSymbolCatalog, NetOK, 0)}) /\ NoParse /\ NoExec
TwoSymbolSpec == TwoSymbolInit /\ [][Next]_vars

\* The run of two manualData sources whose file is rewritten between their
\* reads.  And the runs above with it.
TwoValueRun ==
    [Run((ETH :> <<Manual, Manual>>), NetOK, Millisecond) EXCEPT !.manual = RewrittenFile]
TwoValueInit == Start(Inputs \cup {TwoValueRun}) /\ NoParse /\ NoExec
TwoValueSpec == TwoValueInit /\ [][Next]_vars

(* ------------------------ a parser by itself --------------------------- *)

\* The most items of a path result.
MaxItems == 4

\* The items of the lists: the numbers 10 and 0, the string "1,234.5" of
\* scenario S1, the string "NaN" and the value true.
S1Price == <<"1", ",", "2", "3", "4", ".", "5">>
NaNString == <<"N", "a", "N">>
ListPool == { Num(10), Num(0), S1Price, NaNString, True, YearOne }

\* The strings a path yields by themselves: "1,000", "1,034", "1.5", "1e5",
\* "+1", "0x1p-2", "-300", "Inf", "1e400" and "1.2.3".
ItemPool ==
    ListPool \cup
    { <<"1", ",", "0", "0", "0">>, <<"1", ",", "0", "3", "4">>, <<"1", ".", "5">>,
      <<"1", "e", "5">>, <<"+", "1">>, <<"0", "x", "1", "p", "-", "2">>, Num(-300),
      <<"I", "n", "f">>, <<"1", "e", "4", "0", "0">>, <<"1", ".", "2", ".", "3">> }

\* The inputs of Parse: no JSON, no match, one item, by itself and as a list
\* of one, and every list of up to MaxItems items of ListPool.
ParseInputs ==
    {BadJson, NoMatch}
    \cup { Document(Scalar(a)) : a \in ItemPool }
    \cup { Document(List(<<a>>)) : a \in ItemPool }
    \cup UNION { { Document(List(l)) : l \in [1..n -> ListPool] } : n \in 0..MaxItems }

\* The tracker is built and the parser of its source is handed a document.
ParseInit ==
    /\ Start({Run(SlowCatalog, NetOK, 0)})
    /\ parseInput \in ParseInputs
    /\ parseOutput = << >>
    /\ NoExec

\* The call of JsonPathParser.Parse returns.
ParseDocument ==
    /\ parseOutput = << >>
    /\ \E b \in Builds : parseOutput' = <<Parse(parseInput, b)>>
    /\ UNCHANGED <<retention, prior, catalog, net, newErr, registered, cfgConfid, confidIntv,
                   dataSources, manualFile, cancelled, now, runPc, dbClosed, pc, tick, got, app, started, store,
                   metrics, history, parseInput, kv, exec>>

ParseSpec == ParseInit /\ [][ParseDocument]_vars

(* --------------------- CurrentVariablesTracker.Exec -------------------- *)

\* Calls of Exec that are made.
MaxExec == 2

\* The bytes of a challenge hash, [32]byte in the code.
HashLen == 2

\* hexutil.EncodeBig(n): the number as a hex string.
EncodeBig(n) == <<"0x", n>>

\* What GetCurrentVariables answers: the variables of the challenge n.
CurrentVariables(n) ==
    [challenge |-> [i \in 1..HashLen |-> n], requestID |-> n, difficulty |-> 10 + n,
     queryString |-> <<"json(", n, ")">>, granularity |-> 1000, totalTip |-> 5 * n]
Challenges == {1, 2}

\* What the key of the pending challenge holds when Exec is first called:
\* nothing, the hash of challenge 1, or a shorter string of bytes.
PendingValues == { << >>, CurrentVariables(1).challenge, <<7>> }

\* copy(asBytes32[:], pendingChallenge): the first bytes, zeros after them.
Bytes32(p) == [i \in 1..HashLen |-> IF i <= Len(p) THEN p[i] ELSE 0]

\* bitSetVar: []byte{1} when DidMine answers true for the current
\* challenge, []byte{0} otherwise.
BitSetVar(myStatus) == IF myStatus THEN <<1>> ELSE <<0>>

\* Variant: the mining status is written first.
PutOrderStatusFirst ==
    <<MiningStatusKey, CurrentChallengeKey, RequestIdKey, DifficultyKey, QueryStringKey,
      GranularityKey, TotalTipKey>>

\* The keys Exec puts, in the order of its Puts.
PutOrder ==
    <<CurrentChallengeKey, RequestIdKey, DifficultyKey, QueryStringKey, GranularityKey,
      TotalTipKey, MiningStatusKey>>

\* The bytes Exec puts under a key.
PutValue(key, cur, bit) ==
    CASE key = CurrentChallengeKey -> cur.challenge
      [] key = RequestIdKey -> EncodeBig(cur.requestID)
      [] key = DifficultyKey -> EncodeBig(cur.difficulty)
      [] key = QueryStringKey -> cur.queryString
      [] key = GranularityKey -> EncodeBig(cur.granularity)
      [] key = TotalTipKey -> EncodeBig(cur.totalTip)
      [] key = MiningStatusKey -> bit

\* The tracker is built; the DB holds a pending challenge or none.
ExecInit ==
    /\ Start({Run(SlowCatalog, NetOK, 0)})
    /\ NoParse
    /\ kv \in { [k \in Keys |-> IF k = PendingChallengeKey THEN p ELSE << >>] : p \in PendingValues }
    /\ exec = NoCall

\* What every step of Exec leaves as it is.
ExecFrame ==
    UNCHANGED <<retention, prior, catalog, net, newErr, registered, cfgConfid, confidIntv,
                dataSources, manualFile, cancelled, now, runPc, dbClosed, pc, tick, got, app,
                started, store, metrics, history, parseInput, parseOutput>>

\* return err
ReturnErr == [exec EXCEPT !.pc = "returned", !.err = TRUE]

\* Exec is called.
ExecCall ==
    /\ exec.pc \in {"idle", "returned"}
    /\ exec.calls < MaxExec
    /\ exec' = [NoCall EXCEPT !.pc = "config", !.calls = exec.calls + 1]
    /\ kv' = kv
    /\ ExecFrame

\* config.GetConfig(): on an error log.Fatal ends the process.
GetConfig ==
    /\ exec.pc = "config"
    /\ \E ok \in BOOLEAN :
         exec' = IF ok THEN [exec EXCEPT !.pc = "variables"]
                 ELSE [exec EXCEPT !.pc = "fatal", !.err = TRUE]
    /\ kv' = kv
    /\ ExecFrame

\* instance.GetCurrentVariables(nil)
GetCurrentVariables ==
    /\ exec.pc = "variables"
    /\ \/ \E n \in Challenges :
            exec' = [exec EXCEPT !.pc = "pending", !.cur = CurrentVariables(n)]
       \/ exec' = ReturnErr
    /\ kv' = kv
    /\ ExecFrame

\* DB.Get(db.PendingChallengeKey) and the test of its length.
GetPending ==
    /\ exec.pc = "pending"
    /\ \E ok \in BOOLEAN :
         exec' = IF ok
                 THEN [exec EXCEPT !.pending = kv[PendingChallengeKey],
                                   !.pc = IF Len(kv[PendingChallengeKey]) > 0
                                          THEN "didMinePending" ELSE "didMine"]
                 ELSE ReturnErr
    /\ kv' = kv
    /\ ExecFrame

\* instance.DidMine(nil, asBytes32, fromAddress) for the pending challenge.
DidMinePending ==
    /\ exec.pc = "didMinePending"
    /\ \/ \E didMine \in BOOLEAN :
            exec' = [exec EXCEPT !.asked = Bytes32(exec.pending), !.didMine = didMine,
                                 !.pc = IF didMine THEN "delete" ELSE "didMine"]
       \/ exec' = ReturnErr
    /\ kv' = kv
    /\ ExecFrame

\* DB.Delete(db.PendingChallengeKey)
DeletePending ==
    /\ exec.pc = "delete"
    /\ \E ok \in BOOLEAN :
         IF ok
         THEN /\ kv' = [kv EXCEPT ![PendingChallengeKey] = << >>]
              /\ exec' = [exec EXCEPT !.pc = "didMine", !.writes = Append(@, "delete")]
         ELSE /\ kv' = kv
              /\ exec' = ReturnErr
    /\ ExecFrame

\* instance.DidMine(nil, currentChallenge, fromAddress) and bitSetVar.
DidMine ==
    /\ exec.pc = "didMine"
    /\ \/ \E myStatus \in BOOLEAN :
            exec' = [exec EXCEPT !.bit = BitSetVar(myStatus), !.pc = "put", !.next = 1]
       \/ exec' = ReturnErr
    /\ kv' = kv
    /\ ExecFrame

\* The next DB.Put: an error is returned, and Exec returns after the last.
DBPut ==
    /\ exec.pc = "put"
    /\ LET key == PutOrder[exec.next] IN
       \E ok \in BOOLEAN :
         IF ok
         THEN /\ kv' = [kv EXCEPT ![key] = PutValue(key, exec.cur, exec.bit)]
              /\ exec' = [exec EXCEPT !.writes = Append(@, key),
                                       !.next = @ + 1,
                                       !.pc = IF exec.next = Len(PutOrder) THEN "returned" ELSE "put"]
         ELSE /\ kv' = kv
              /\ exec' = ReturnErr
    /\ ExecFrame

ExecNext ==
    \/ ExecCall
    \/ GetConfig
    \/ GetCurrentVariables
    \/ GetPending
    \/ DidMinePending
    \/ DeletePending
    \/ DidMine
    \/ DBPut

ExecSpec == ExecInit /\ [][ExecNext]_vars

\* The scheduler runs every goroutine that can take a step, a started Get or
\* Commit returns, a sleep ends and a ticker keeps firing.
FairSpec ==
    /\ Spec
    /\ \A w \in Workers : WF_vars(Worker(w)) /\ WF_vars(Tick(w))

(* ============================ properties ============================== *)

Running(w) == pc[w] \notin {"none", "exit", "panic"}
AllReturned == \A w \in Workers : ~Running(w)
ValueWorkers == {w \in Workers : ~IsApi(w)}
ApiWorkers == {w \in Workers : IsApi(w)}
CountSeries(symbol) == Series(store, CountLabels(symbol))

\* Value loops whose Get returned an error that is not yet counted.
UncountedErrors(s) ==
    Cardinality({w \in ValueWorkers : pc[w] = "got" /\ got[w].err /\ Source(w) = s})

\* C1: a Get that returns an error adds exactly one to errors_total{source}
\* and appends no sample in that iteration, and nothing else adds to the
\* counter: it equals the number of failed Get calls of the source id (less
\* the ones whose loop has not reached the increment yet).
C1_ErrorsCountFailedGets ==
    /\ [](\A s \in SourceIds : getErrors[s] + UncountedErrors(s) = failedGets[s])
    /\ [][\A w \in ValueWorkers :
            (pc[w] = "got" /\ got[w].err /\ pc'[w] # "got")
            => /\ getErrors'[Source(w)] = getErrors[Source(w)] + 1
               /\ pc'[w] = "wait"
               /\ store' = store
               /\ app'[w] = << >>]_vars

C1_Witness ==
    \E s \in SourceIds : getErrors[s] = 2 /\ failedGets[s] = 2 /\ store = EmptyStore

\* C2: once the context is cancelled no loop appends to an appender and no
\* loop commits: the store stays as it was at the cancellation.
C2_NoWriteAfterCancel ==
    [][cancelled => /\ store' = store
                    /\ \A w \in Workers : Len(app'[w]) <= Len(app[w])]_vars

\* C3: after the cancellation every loop returns, having received at most
\* one more tick, when tickers keep firing and pending calls return.
C3_WorkersReturn ==
    /\ [](\A w \in Workers : lateTicks[w] <= 1)
    /\ (cancelled ~> AllReturned)

C3_Witness ==
    /\ cancelled
    /\ AllReturned
    /\ \E w \in Workers : pc[w] = "exit" /\ lateTicks[w] = 1

\* C4: every suspension point is cancel-aware: a loop that is suspended (in
\* the stagger sleep, in Get, in Commit or on the tick) when the context is
\* done can go on by itself, without a tick of its ticker.
C4_SuspensionsCancelAware ==
    \A w \in Workers :
        (cancelled /\ pc[w] \in {"sleep", "get", "commit", "wait"}) => ENABLED Worker(w)

\* C5: the store is closed only after every loop has returned.
C5_ClosedAfterWorkers == dbClosed => AllReturned

\* C6: a Get that succeeds with a non-zero timestamp earlier than the
\* current time makes the loop wait for its tick with no sample appended, no
\* error counted and the gauges as they were.
C6_ExpiredDiscarded ==
    [][\A w \in ValueWorkers :
         (/\ pc[w] = "got"
          /\ ~got[w].err
          /\ got[w].ts # ZeroTime
          /\ got[w].ts < now
          /\ pc'[w] # "got")
         => /\ pc'[w] = "wait"
            /\ store' = store
            /\ app' = app
            /\ getErrors' = getErrors
            /\ prices' = prices
            /\ volumes' = volumes]_vars

C6_Witness ==
    \E w \in ValueWorkers :
        /\ pc[w] = "wait"
        /\ last[w] = "expired"
        /\ store = EmptyStore
        /\ getErrors[Source(w)] = 0
        /\ prices = EmptyVec

\* C7: after a Get that returns (p, v, zero timestamp) the appender of the
\* iteration holds one _price sample of value p and one _volume sample of
\* value v, labelled with the source id, both with the same timestamp, the
\* current time.
C7_SameTimestamp ==
    [][\A w \in ValueWorkers :
         (pc[w] = "appendVolume" /\ pc'[w] = "commit" /\ IsZero(got[w].ts))
         => app'[w] =
              << Sample(ValueLabels(w[1], PriceSuffix, Source(w)), FromTime(now), got[w].price),
                 Sample(ValueLabels(w[1], VolumeSuffix, Source(w)), FromTime(now), got[w].volume) >>]_vars

NonDecreasing(points) ==
    \A i \in 1..Len(points) : \A j \in i..Len(points) : points[i].t <= points[j].t

\* C8: the timestamps of every series (symbol, source id, metric name) are
\* non-decreasing in the order of the commits, in every interleaving, also
\* when two descriptors of a symbol have the same source id.
C8_SeriesMonotonic == \A k \in DOMAIN store : NonDecreasing(store[k])

\* C9: every _api_count sample, committed or in an appender, has the number
\* of descriptors the catalog lists for the symbol as its value.
C9_ApiCountIsCatalogSize ==
    \A sym \in DOMAIN catalog :
        /\ \A i \in 1..Len(CountSeries(sym)) : CountSeries(sym)[i].v = Float(Len(catalog[sym]))
        /\ \A i \in 1..Len(app[<<sym, 0>>]) : app[<<sym, 0>>][i].v = Float(Len(catalog[sym]))

C9_Witness ==
    \E sym \in DOMAIN catalog :
        /\ Len(catalog[sym]) = 2
        /\ Len(CountSeries(sym)) = 2
        /\ CountSeries(sym)[1].v = Float(2)
        /\ CountSeries(sym)[2].v = Float(2)

\* C10: the store holds an _api_count sample equal to N for every symbol of
\* the catalog with its N sources, in the first interval and in each
\* interval after it.  While Run waits, the api-count loop of the symbol
\* that waits for its tick has stored a sample in the first interval and one
\* for each tick it has received, each equal to N, and no symbol of the
\* catalog is without such a loop, which alone writes the samples.
C10_SampleEveryInterval ==
    \A sym \in DOMAIN catalog :
        /\ pc[<<sym, 0>>] = "wait"
           => Len(CountSeries(sym)) >= apiTicks[<<sym, 0>>] + 1
        /\ \A i \in 1..Len(CountSeries(sym)) :
              CountSeries(sym)[i].v = Float(Len(catalog[sym]))
        /\ runPc = "waiting" => pc[<<sym, 0>>] # "none"

Max(a, b) == IF a >= b THEN a ELSE b

\* C11: the period of the ticker a value loop opens is the larger of the
\* interval the catalog gives for the source and cfg.Interval.
C11_TickerPeriodIsMax ==
    \A w \in ValueWorkers :
        (Spawned(w) /\ pc[w] \notin {"none", "sleep"})
        => TickerInterval(DataSource(w)) = Max(catalog[w[1]][w[2]].interval, CfgInterval)

\* C12: Interval() of a loaded data source is cfg.Interval when the
\* descriptor's interval is zero, and the descriptor's interval otherwise.
C12_IntervalFromDescriptor ==
    \A sym \in DOMAIN dataSources : \A i \in 1..Len(dataSources[sym]) :
        dataSources[sym][i].interval =
            IF catalog[sym][i].interval = 0 THEN CfgInterval ELSE catalog[sym][i].interval

\* The type and the parser of a descriptor after the defaults of an omitted
\* type (http) and an omitted parser (jsonPath).
TypeOf(api) == IF api.type = "" THEN httpSource ELSE api.type
ParserOf(api) == IF api.parser = "" THEN jsonPathParser ELSE api.parser
KnownTypes == {httpSource, ethereumSource, manualSource}
ValidParsers(type) ==
    IF type = ethereumSource THEN {uniswapParser, balancerParser} ELSE {jsonPathParser}
BadParser(api) == TypeOf(api) \in KnownTypes /\ ParserOf(api) \notin ValidParsers(TypeOf(api))
BadType(api) == TypeOf(api) \notin KnownTypes
OnChain(api) == TypeOf(api) = ethereumSource
Some(cat, P(_)) == \E s \in DOMAIN cat : \E i \in 1..Len(cat[s]) : P(cat[s][i])
\* The data sources the tracker holds for a symbol: none for a symbol that is
\* no key of the mapping.
SourcesOf(s) == IF s \in DOMAIN dataSources THEN dataSources[s] ELSE << >>
\* The tracker holds a data source for every descriptor of the catalog, and
\* for nothing else.
Complete ==
    /\ DOMAIN dataSources \subseteq DOMAIN catalog
    /\ \A s \in DOMAIN catalog : Len(SourcesOf(s)) = Len(catalog[s])

\* C13: a catalog with a descriptor whose parser is not valid for its type
\* makes New fail; New never succeeds with a nil or partial mapping or with
\* a data source whose parser is nil.
C13_BadParserRejected ==
    /\ Some(catalog, BadParser) => newErr
    /\ ~newErr => Complete
    /\ \A s \in DOMAIN dataSources : \A i \in 1..Len(dataSources[s]) :
           ~NilParser(dataSources[s][i])

\* C14: the result is a complete mapping or an error, never both and never
\* neither; a descriptor of an unknown type, or a failed network-id query or
\* address lookup for an on-chain descriptor, gives the error with no
\* mapping, no tracker and no metrics registered.
C14_MappingOrError ==
    /\ newErr => (dataSources = << >> /\ ~registered /\ runPc = "failed")
    /\ (runPc # "unbuilt" /\ ~newErr) => (Complete /\ registered)
    /\ (\/ Some(catalog, BadType)
        \/ Some(catalog, OnChain) /\ (net.idErr \/ ~net.hasAddr)) => newErr

\* A value loop has called Get.
HasCalledGet(w) ==
    pc[w] \in {"get", "got", "appendPrice", "appendVolume", "commit", "gauges", "volumeGauge", "wait"}

\* C15: of two sources of a symbol the one with the smaller ordinal calls
\* its first Get first, and the two first Gets do not fall within the same
\* millisecond: while the clock shows the millisecond the process started
\* in, at most one of them has called Get.
C15_StaggeredFirstGets ==
    \A w \in ValueWorkers : \A v \in ValueWorkers :
        (w[1] = v[1] /\ w[2] < v[2] /\ HasCalledGet(v))
        => /\ pc[w] # "sleep"
           /\ FromTime(now) = FromTime(StartTime) => ~HasCalledGet(w)

\* C16: a loop that starts to wait after a failed Get waits for a tick that
\* fires after the failure: none is pending in its ticker's channel, also
\* when the Get lasted longer than the interval.
C16_FullIntervalAfterFailure ==
    [][\A w \in ValueWorkers :
         (pc[w] = "got" /\ got[w].err /\ pc'[w] = "wait") => ~tick'[w]]_vars

\* C17: a manualData loop whose file yields (10, 0, now - 5m) appends
\* nothing in that iteration, and one whose file yields (10, 0, 0) goes on to
\* append a _price sample of value 10.
C17_ManualStaleThenFresh ==
    [][\A w \in ValueWorkers :
         /\ (pc[w] = "got" /\ DataSource(w).kind = "JSONfile" /\ pc'[w] # "got")
            => /\ (\E b \in Builds : got[w] = Parse(Numbers(<<10, 0, -300>>), b))
                  => (app'[w] = << >> /\ store' = store /\ pc'[w] = "wait")
               /\ (\E b \in Builds : got[w] = Parse(Numbers(<<10, 0, 0>>), b))
                  => pc'[w] = "appendPrice"
         /\ (pc[w] = "appendPrice" /\ pc'[w] = "appendVolume")
            => app'[w] = <<Sample(ValueLabels(w[1], PriceSuffix, Source(w)),
                                  FromTime(now), got[w].price)>>]_vars

\* C18: until the cancellation every loop that Run started is running,
\* whatever errors it and its peers met, and a step of one loop leaves the
\* position of every other loop as it was.
C18_ErrorsContained ==
    [][/\ \A w \in Workers :
            (Spawned(w) /\ runPc' \in {"waiting", "returned", "panic"} /\ ~cancelled')
            => pc'[w] \notin {"none", "exit", "panic"}
       /\ runPc # "new"
          => \A w \in Workers : \A v \in Workers :
                (w # v /\ pc'[w] # pc[w]) => pc'[v] = pc[v]]_vars

\* C19: the threshold handed to the aggregator is cfg.IndexTracker.Interval
\* plus one second when the configured threshold is zero, and the configured
\* threshold otherwise.
C19_ThresholdDefault ==
    confidIntv = IF cfgConfid = 0 THEN CfgInterval + Second ELSE cfgConfid

C19_Witness ==
    /\ cfgConfid = 0
    /\ confidIntv = CfgInterval + Second
    /\ runPc = "waiting"

\* The state of the per-loop state machine a value loop is in: the select at
\* the head of the loop, the Get and the handling of its result are POLL.
Phase(p) ==
    CASE p \in {"none", "sleep"} -> "INIT"
      [] p \in {"check", "get", "got"} -> "POLL"
      [] p \in {"appendPrice", "appendVolume", "commit", "gauges", "volumeGauge"} -> "APPEND"
      [] p = "wait" -> "WAIT"
      [] p = "exit" -> "EXIT"
      [] OTHER -> "DEAD"

\* The transitions of the state machine, for a step of the loop w.
MachineStep(w) ==
    LET from == Phase(pc[w])
        to == Phase(pc'[w])
    IN  \/ from = "INIT" /\ to = "POLL" /\ pc[w] = "sleep"
        \/ from = "POLL" /\ to = "APPEND" /\ ~got[w].err /\ ~Expired(got[w].ts, now)
        \/ /\ from = "POLL" /\ to = "WAIT"
           /\ \/ got[w].err /\ getErrors'[Source(w)] = getErrors[Source(w)] + 1
              \/ ~got[w].err /\ Expired(got[w].ts, now) /\ getErrors' = getErrors
        \/ from = "APPEND" /\ to = "WAIT"
        \/ from = "WAIT" /\ to = "POLL" /\ tick[w] /\ ~tick'[w]
        \/ to = "EXIT" /\ cancelled

\* C21: a value loop changes its state by the transitions of the state
\* machine only: INIT -> POLL after the stagger, POLL -> APPEND on a fresh
\* value, POLL -> WAIT on a stale value or (with errors_total incremented) on
\* a Get error, APPEND -> WAIT, WAIT -> POLL on a tick, and -> EXIT on
\* cancellation.
C21_RefinesLoopMachine ==
    [][\A w \in ValueWorkers :
         Phase(pc'[w]) # Phase(pc[w]) => MachineStep(w)]_vars

\* The value of the last sample of a series, and whether a gauge shows it: the
\* gauge has no child for the source while the series is empty.
ShowsLast(vec, source, points) ==
    IF points = << >>
    THEN source \notin DOMAIN vec
    ELSE source \in DOMAIN vec /\ vec[source] = points[Len(points)].v

\* C22: the gauges price{source} and volume{source} are set after a
\* successful commit only, to the values just committed, so while a value
\* loop waits for its tick the gauges of its source show the price and the
\* volume of the last committed sample of that source id.
C22_GaugesShowLastCommitted ==
    \A w \in ValueWorkers :
        pc[w] = "wait"
        => /\ ShowsLast(prices, Source(w),
                        Series(store, ValueLabels(w[1], PriceSuffix, Source(w))))
           /\ ShowsLast(volumes, Source(w),
                        Series(store, ValueLabels(w[1], VolumeSuffix, Source(w))))

\* The metric name of a symbol as the store is queried for it: the symbol
\* with "_" for its "/", followed by the suffix.
QueryName(symbol, suffix) ==
    [i \in 1..(Len(symbol) + 1) |->
        IF i > Len(symbol) THEN suffix ELSE IF symbol[i] = "/" THEN "_" ELSE symbol[i]]

\* The labels a sample of the loop w may carry.
LabelsOf(w) ==
    IF IsApi(w)
    THEN { [x \in {"__name__"} |-> QueryName(w[1], ApiCountSuffix)] }
    ELSE { [x \in {"__name__", "source"} |->
              IF x = "source" THEN Source(w) ELSE QueryName(w[1], suffix)] :
           suffix \in {PriceSuffix, VolumeSuffix} }

\* C23: a _price or _volume sample carries exactly the labels __name__ =
\* sanitized(symbol + suffix) and source = Source() of the data source of the
\* loop that wrote it, an _api_count sample the label __name__ only; every
\* sample in the appender of a loop is named after the symbol of that loop,
\* and every series of the store is one of a loop that runs.
C23_LabelsOfSamples ==
    /\ \A w \in Workers : \A i \in 1..Len(app[w]) : app[w][i].labels \in LabelsOf(w)
    /\ \A k \in DOMAIN store : \E w \in Workers : Spawned(w) /\ k \in LabelsOf(w)

\* Both symbols of a run have a series in the store, one of them a series
\* with a source label.
C23_Witness ==
    /\ [x \in {"__name__", "source"} |->
          IF x = "source" THEN <<"http://b/">> ELSE <<"BTC", "_", "USD", "_price">>] \in DOMAIN store
    /\ [x \in {"__name__"} |-> <<"ETH", "_", "USD", "_api_count">>] \in DOMAIN store

\* The float64 the items stand for: the decimal mant * 10^exp, +Inf and NaN,
\* which are float64 as well; every other item is no number.  And the whole
\* seconds of the finite ones as an instant, time.Time{} for the seconds of
\* the start of year 1.
NumberOf ==
    (<<"I", "n", "f">> :> Inf(FALSE)) @@ (NaNString :> NaN) @@
    (Num(10) :> Finite(FALSE, 1, 1)) @@ (Num(0) :> Finite(FALSE, 0, 0)) @@
    (S1Price :> Finite(FALSE, 12345, 0 - 1)) @@
    (<<"1", ",", "0", "0", "0">> :> Finite(FALSE, 1, 3)) @@
    (<<"1", ",", "0", "3", "4">> :> Finite(FALSE, 1034, 0)) @@
    (<<"1", ".", "5">> :> Finite(FALSE, 15, 0 - 1)) @@
    (<<"1", "e", "5">> :> Finite(FALSE, 1, 5)) @@
    (<<"+", "1">> :> Finite(FALSE, 1, 0)) @@
    (<<"0", "x", "1", "p", "-", "2">> :> Finite(FALSE, 25, 0 - 2)) @@
    (Num(-300) :> Finite(TRUE, 3, 2)) @@ (YearOne :> Finite(TRUE, 621355968, 2))
InstantOf ==
    (Num(10) :> Epoch + 10 * Second) @@ (Num(0) :> Epoch) @@
    (S1Price :> Epoch + 1234 * Second) @@
    (<<"1", ",", "0", "0", "0">> :> Epoch + 1000 * Second) @@
    (<<"1", ",", "0", "3", "4">> :> Epoch + 1034 * Second) @@
    (<<"1", ".", "5">> :> Epoch + Second) @@ (<<"1", "e", "5">> :> DistantFuture) @@
    (<<"+", "1">> :> Epoch + Second) @@ (<<"0", "x", "1", "p", "-", "2">> :> Epoch) @@
    (Num(-300) :> Epoch - 300 * Second) @@ (YearOne :> ZeroTime)

\* C24: Parse of a path result that is one number, or a list of one to three
\* numbers, returns (item 0, item 1 or 0, the time item 2 seconds after the
\* epoch or the zero time) and no error, a ',' in an item being dropped; if
\* one of the first three items is no number it returns an error.
C24_ParseContract ==
    (parseOutput # << >> /\ parseInput.json /\ parseInput.path)
    => LET out == parseOutput[1]
           result == parseInput.output
           items == IF result.kind = "scalar" THEN <<result.value>> ELSE result.value
           k == Len(items)
           numeric == {i \in 1..k : items[i] \in DOMAIN NumberOf}
       IN  /\ (k \in 1..3 /\ numeric = 1..k)
              => /\ ~out.err
                 /\ out.price = NumberOf[items[1]]
                 /\ out.volume = IF k >= 2 THEN NumberOf[items[2]] ELSE Zero
                 /\ k < 3 => out.ts = ZeroTime
                 /\ (k = 3 /\ items[3] \in DOMAIN InstantOf)
                    => out.ts = InstantOf[items[3]]
           /\ (\E i \in 1..k : i <= 3 /\ i \notin numeric) => out.err

\* Parse has returned for the list ("1,234.5", 10, "1,234.5").
C24_Witness ==
    /\ parseInput = Document(List(<<S1Price, Num(10), S1Price>>))
    /\ parseOutput = <<[err |-> FALSE, price |-> Finite(FALSE, 12345, 0 - 1),
                        volume |-> Float(10), ts |-> Epoch + 1234 * Second]>>

\* C25: New in a process in which a tracker was built before and stopped
\* gives a working tracker as in a process that starts: with a catalog that
\* loads, the tracker has its data sources and its metric vectors, and New
\* does not panic on the metric families the first tracker registered.
C25_RegistrationIdempotent ==
    (prior # {} /\ ~newErr) => (registered /\ Complete /\ runPc # "newPanic")

\* C26: the retention the store is opened with is 48 hours in the unit of
\* the sample timestamps, milliseconds: 172,800,000.
C26_RetentionInStoreUnit ==
    /\ retention = FromTime(Epoch + 48 * Hour) - FromTime(Epoch)
    /\ retention = 172800000

\* C27: the price and the volume of an iteration are committed together or
\* not at all: in every state the store holds as many _price samples as
\* _volume samples of a symbol and source id.
C27_PriceAndVolumeTogether ==
    \A w \in ValueWorkers :
        Spawned(w)
        => Len(Series(store, ValueLabels(w[1], PriceSuffix, Source(w))))
           = Len(Series(store, ValueLabels(w[1], VolumeSuffix, Source(w))))

\* Of two loops of one source id one has committed its two samples and the
\* Commit of the other has failed.
C27_Witness ==
    \E w \in ValueWorkers : \E v \in ValueWorkers :
        /\ w # v /\ Spawned(w) /\ Spawned(v) /\ w[1] = v[1] /\ Source(w) = Source(v)
        /\ last[w] = "commitFailed"
        /\ last[v] = "committed"
        /\ Len(Series(store, ValueLabels(w[1], PriceSuffix, Source(w)))) = 1
        /\ Len(Series(store, ValueLabels(w[1], VolumeSuffix, Source(w)))) = 1

\* The prices a source can serve: the first items of its documents.
Served(ds) ==
    LET docs == IF ds.kind = "JSONfile" THEN manualFile ELSE HttpResults
        lists == { ResultList(d.output) : d \in {x \in docs : x.json /\ x.path} }
    IN  { ParseFloat(RemoveCommas(l[1])).val : l \in {x \in lists : x # << >>} }

\* C28: the price of every _price sample a value loop appends is the first
\* element of the path result of a document of its source; a path result
\* without elements gives no sample.
C28_PriceFromFirstElement ==
    \A w \in ValueWorkers : \A i \in 1..Len(app[w]) :
        app[w][i].labels = ValueLabels(w[1], PriceSuffix, Source(w))
        => app[w][i].v \in Served(DataSource(w))

\* The Puts the call of Exec has made, after the Delete if it made one.
PutsMade ==
    IF exec.writes # << >> /\ exec.writes[1] = "delete" THEN Tail(exec.writes) ELSE exec.writes

\* The six variables of the challenge, then the mining status.
VariablesThenStatus ==
    <<CurrentChallengeKey, RequestIdKey, DifficultyKey, QueryStringKey, GranularityKey,
      TotalTipKey, MiningStatusKey>>

\* What the DB holds under a key that the call has put: the variable of the
\* answer of GetCurrentVariables in this call, as bytes.
HoldsVariable(key) ==
    kv[key] = CASE key = CurrentChallengeKey -> exec.cur.challenge
                [] key = RequestIdKey -> <<"0x", exec.cur.requestID>>
                [] key = DifficultyKey -> <<"0x", exec.cur.difficulty>>
                [] key = QueryStringKey -> exec.cur.queryString
                [] key = GranularityKey -> <<"0x", exec.cur.granularity>>
                [] key = TotalTipKey -> <<"0x", exec.cur.totalTip>>
                [] key = MiningStatusKey -> exec.bit

\* C29: a call of Exec puts the six variables of one answer of
\* GetCurrentVariables in their order and the mining status after them, last;
\* a read or a write that fails makes Exec return the error with no write
\* after it; and the pending challenge is deleted only when the DB held a
\* non-empty one and DidMine answered true for it.
C29_StatusWrittenLast ==
    /\ [](/\ Len(PutsMade) <= Len(VariablesThenStatus)
          /\ \A i \in 1..Len(PutsMade) :
                PutsMade[i] = VariablesThenStatus[i] /\ HoldsVariable(PutsMade[i])
          /\ exec.err => exec.pc \in {"returned", "fatal"}
          /\ (exec.writes # << >> /\ exec.writes[1] = "delete")
             => (exec.pending # << >> /\ exec.didMine /\ exec.asked = Bytes32(exec.pending)))
    /\ [][/\ exec.err => kv' = kv
          /\ kv' # kv => Len(exec'.writes) = Len(exec.writes) + 1
          /\ kv'[PendingChallengeKey] # kv[PendingChallengeKey]
             => (exec.pc = "delete" /\ exec.pending # << >> /\ exec.didMine
                 /\ kv'[PendingChallengeKey] = << >>)]_vars

\* The second call of Exec has returned without an error: it deleted the
\* pending challenge, put the six variables and, last, the mining status.
C29_Witness ==
    /\ exec.calls = 2
    /\ exec.pc = "returned"
    /\ ~exec.err
    /\ exec.writes = <<"delete">> \o VariablesThenStatus
    /\ kv[MiningStatusKey] = <<1>>
    /\ kv[PendingChallengeKey] = << >>

====
